---- MODULE Spec2Model ----
(***************************************************************************)
(* SheetHub: header-row detection and the per-sheet cleaning pipeline      *)
(* (src/utils/header_detection.py, src/utils/excel_cleaner.py), and the    *)
(* reporting step the app runs on the cleaned tables                       *)
(* (src/utils/ai_insights.py, src/app.py).                                 *)
(*                                                                         *)
(* Text is a tuple of one-character strings, so that the string functions  *)
(* of the source (strip, lower, the regular expressions, snake) are        *)
(* computed character by character.  A cell is a record                    *)
(*    [t |-> "na" | "num" | "str" | "dt", n |-> Nat, s |-> text]           *)
(* ("na" is pandas' NaN/NaT, "num" an integer, "str" a text, "dt" a        *)
(* timestamp of year n).  A DataFrame is a record                          *)
(*    [columns, index, rows, origin, synth]                                *)
(* columns: the labels; index: pandas' row labels; rows: the records;      *)
(* origin: for each column the raw column position its data came from      *)
(* (TagOrigin for the data written by data["__row_id__"] = range(...));    *)
(* synth: for each column whether clean_single_sheet_from_raw made its     *)
(* label up (the column_<i> fallback) instead of reading it from the       *)
(* header row.  origin and synth are bookkeeping of the model: no          *)
(* operation of the code reads them.                                       *)
(***************************************************************************)
EXTENDS Integers, Sequences, FiniteSets, TLC

VARIABLES df_raw, header_idx, df, prev, cleaned, subset, pc,
          apply_standardize, remove_summary, remove_dupes, dup_subset_map,
          drop_missing

vars == <<df_raw, header_idx, df, prev, cleaned, subset, pc,
          apply_standardize, remove_summary, remove_dupes, dup_subset_map,
          drop_missing>>

----------------------------------------------------------------------------
(* Characters and text                                                     *)

UpperSeq == <<"A","B","C","D","E","F","G","H","I","J","K","L","M",
              "N","O","P","Q","R","S","T","U","V","W","X","Y","Z">>

LowerSeq == <<"a","b","c","d","e","f","g","h","i","j","k","l","m",
              "n","o","p","q","r","s","t","u","v","w","x","y","z">>

DigitSeq == <<"0","1","2","3","4","5","6","7","8","9">>

Range(f) == {f[i] : i \in DOMAIN f}

DigitSet == Range(DigitSeq)

UpperSet == Range(UpperSeq)

AlphaSet == Range(UpperSeq) \cup Range(LowerSeq)

IsDigit(c) == c \in DigitSet

IsAlpha(c) == c \in AlphaSet

\* \w of Python's re, over the model's alphabet
IsWord(c) == IsAlpha(c) \/ IsDigit(c) \/ c = "_"

\* \s of Python's re, over the model's alphabet
IsSpace(c) == c = " "

LowerChar(c) ==
    IF c \in UpperSet
    THEN LowerSeq[CHOOSE i \in 1..26 : UpperSeq[i] = c]
    ELSE c

\* str.lower()
Lower(s) == [i \in 1..Len(s) |-> LowerChar(s[i])]

MinOf(S) == CHOOSE x \in S : \A y \in S : x <= y

MaxOf(S) == CHOOSE x \in S : \A y \in S : x >= y

\* str.strip(): leading and trailing whitespace removed
Strip(s) ==
    LET keep == {i \in 1..Len(s) : ~IsSpace(s[i])}
    IN  IF keep = {} THEN <<>> ELSE SubSeq(s, MinOf(keep), MaxOf(keep))

\* str.strip("_")
StripUnderscores(s) ==
    LET keep == {i \in 1..Len(s) : s[i] # "_"}
    IN  IF keep = {} THEN <<>> ELSE SubSeq(s, MinOf(keep), MaxOf(keep))

\* str.startswith(p)
StartsWith(s, p) == Len(s) >= Len(p) /\ SubSeq(s, 1, Len(p)) = p

\* p in s
Contains(s, p) ==
    \E i \in 1..(Len(s) - Len(p) + 1) : SubSeq(s, i, i + Len(p) - 1) = p

\* str.replace(c, "") for a single character c
RemoveChar(s, c) == SelectSeq(s, LAMBDA x : x # c)

RECURSIVE IntToStr(_)
\* str(n) for an integer n >= 0
IntToStr(n) ==
    IF n < 10 THEN <<DigitSeq[n + 1]>>
    ELSE IntToStr(n \div 10) \o <<DigitSeq[(n % 10) + 1]>>

----------------------------------------------------------------------------
(* Cells                                                                   *)

NaN == [t |-> "na", n |-> 0, s |-> <<>>]

Num(k) == [t |-> "num", n |-> k, s |-> <<>>]

Txt(chars) == [t |-> "str", n |-> 0, s |-> chars]

Timestamp(year) == [t |-> "dt", n |-> year, s |-> <<>>]

\* pd.isna(v)
isna(v) == v.t = "na"

\* pd.notna(v)
notna(v) == ~isna(v)

\* str(v): a missing value renders "nan", an integer its decimal digits, a
\* timestamp of year n as "n-01-01 00:00:00"
Str(v) ==
    CASE v.t = "na"  -> <<"n","a","n">>
      [] v.t = "num" -> IntToStr(v.n)
      [] v.t = "str" -> v.s
      [] v.t = "dt"  -> IntToStr(v.n) \o <<"-","0","1","-","0","1"," ",
                                           "0","0",":","0","0",":","0","0">>

----------------------------------------------------------------------------
(* header_detection.py                                                     *)

\* re.fullmatch(r"[0-9,.%]+", s)
IsPureNumberText(s) ==
    /\ Len(s) >= 1
    /\ \A i \in 1..Len(s) : IsDigit(s[i]) \/ s[i] \in {",", ".", "%"}

\* re.search(r"\b(id|code|emp)[-_]?\d+", s)
HasIdCode(s) ==
    \E i \in 1..Len(s) :
        /\ i = 1 \/ ~IsWord(s[i - 1])
        /\ \E p \in {<<"i","d">>, <<"c","o","d","e">>, <<"e","m","p">>} :
              /\ i + Len(p) - 1 <= Len(s)
              /\ SubSeq(s, i, i + Len(p) - 1) = p
              /\ LET j == i + Len(p)
                 IN  \/ j <= Len(s) /\ IsDigit(s[j])
                     \/ /\ j + 1 <= Len(s)
                        /\ s[j] \in {"-", "_"}
                        /\ IsDigit(s[j + 1])

is_header_like_cell(value) ==
    IF isna(value) THEN FALSE
    ELSE LET s == Strip(Str(value))
         IN  IF s = <<>> THEN FALSE
             ELSE IF IsPureNumberText(s) THEN FALSE
             ELSE IF HasIdCode(Lower(s)) THEN FALSE
             ELSE TRUE

\* str(v).replace(".", "").replace(",", "").isdigit()
IsNumericCell(v) ==
    LET s == RemoveChar(RemoveChar(Str(v), "."), ",")
    IN  Len(s) >= 1 /\ \A i \in 1..Len(s) : IsDigit(s[i])

\* bool(re.search(r"\d", str(v))) and bool(re.search(r"[a-zA-Z]", str(v)))
IsIdLikeCell(v) ==
    LET s == Str(v)
    IN  /\ \E i \in 1..Len(s) : IsDigit(s[i])
        /\ \E i \in 1..Len(s) : IsAlpha(s[i])

\* the number of positions of a row whose cell satisfies Test
CountCells(row, Test(_)) == Cardinality({j \in 1..Len(row) : Test(row[j])})

\* row.notna().sum()
NonEmptyCount(row) == CountCells(row, notna)

\* the window of rows the detector examines
MaxRowsToCheck == 20

\* the position bonus of the first row
TopBonus == 10

\* the weight of a header-like cell
HeaderWeight == 3

\* the penalty of a numeric cell
NumericPenalty == 2

\* rows are 0-based as in the source; row i of the grid is grid[i + 1]
RowScore(row, i) ==
    LET header_like   == CountCells(row, is_header_like_cell)
        unique_vals   == Cardinality({Lower(Strip(Str(row[j]))) :
                              j \in {k \in 1..Len(row) : notna(row[k])}})
        numeric_cells == Cardinality({j \in 1..Len(row) :
                              notna(row[j]) /\ IsNumericCell(row[j])})
        id_like_cells == Cardinality({j \in 1..Len(row) :
                              notna(row[j]) /\ IsIdLikeCell(row[j])})
        position_bonus == IF TopBonus - i > 0 THEN TopBonus - i ELSE 0
    IN  (HeaderWeight * header_like) + unique_vals
        - (NumericPenalty * numeric_cells) - id_like_cells + position_bonus

\* Better with >= for >: the last maximal row would win
BetterOrEqual(score, best_score) == score >= best_score

\* the comparison that replaces the running maximum
Better(score, best_score) == score > best_score

RECURSIVE HeaderLoop(_, _, _, _, _)
\* the for loop of detect_header_row; has_best = FALSE stands for
\* best_score = float("-inf")
HeaderLoop(grid, i, best_row, has_best, best_score) ==
    IF i >= (IF Len(grid) < MaxRowsToCheck THEN Len(grid) ELSE MaxRowsToCheck)
    THEN best_row
    ELSE LET row == grid[i + 1]
         IN  IF NonEmptyCount(row) = 0
             THEN HeaderLoop(grid, i + 1, best_row, has_best, best_score)
             ELSE LET score == RowScore(row, i)
                  IN  IF ~has_best \/ Better(score, best_score)
                      THEN HeaderLoop(grid, i + 1, i, TRUE, score)
                      ELSE HeaderLoop(grid, i + 1, best_row, has_best,
                                      best_score)

detect_header_row(grid) == HeaderLoop(grid, 0, 0, FALSE, 0)

----------------------------------------------------------------------------
(* excel_cleaner.py: standardize_column_names                              *)

\* the characters re.sub(r"[^\w\s]", "", s) keeps
KeepChar(c) == IsWord(c) \/ IsSpace(c)

RECURSIVE DropLeadingSpaces(_)
DropLeadingSpaces(s) ==
    IF s # <<>> /\ IsSpace(Head(s)) THEN DropLeadingSpaces(Tail(s)) ELSE s

RECURSIVE CollapseSpaces(_)
\* re.sub(r"\s+", "_", s)
CollapseSpaces(s) ==
    IF s = <<>> THEN <<>>
    ELSE IF IsSpace(Head(s))
         THEN <<"_">> \o CollapseSpaces(DropLeadingSpaces(Tail(s)))
         ELSE <<Head(s)>> \o CollapseSpaces(Tail(s))

T_column == <<"c","o","l","u","m","n">>

snake(c) ==
    LET s1 == SelectSeq(Lower(c), KeepChar)
        s2 == StripUnderscores(CollapseSpaces(s1))
    IN  IF s2 = <<>> THEN T_column ELSE s2

\* seen.get(base, 0)
SeenGet(seen, base) == IF base \in DOMAIN seen THEN seen[base] ELSE 0

\* seen[base] = n
SeenPut(seen, base, n) ==
    [b \in DOMAIN seen \cup {base} |-> IF b = base THEN n ELSE seen[b]]

\* the name appended for a column: base, or f"{base}_{seen[base]}"
SuffixedName(base, count) ==
    IF count = 0 THEN base ELSE base \o <<"_">> \o IntToStr(count)

RECURSIVE StandardizeLoop(_, _, _, _)
\* the for loop of standardize_column_names over df.columns
StandardizeLoop(columns, i, seen, cols) ==
    IF i > Len(columns) THEN cols
    ELSE LET base  == snake(columns[i])
             count == SeenGet(seen, base)
         IN  StandardizeLoop(columns, i + 1, SeenPut(seen, base, count + 1),
                             Append(cols, SuffixedName(base, count)))

standardize_column_names(d) ==
    [d EXCEPT !.columns = StandardizeLoop(d.columns, 1, <<>>, <<>>)]

----------------------------------------------------------------------------
(* Text constants of the model                                             *)

T_name == <<"n","a","m","e">>

T_salary == <<"s","a","l","a","r","y">>

T_bob == <<"b","o","b">>

T_emp001 == <<"E","M","P","-","0","0","1">>

T_total == <<"t","o","t","a","l">>

T_employeeid == <<"e","m","p","l","o","y","e","e","i","d">>

T_E1 == <<"E","1">>

T_dept == <<"d","e","p","t">>

----------------------------------------------------------------------------
(* DataFrames                                                              *)

\* pd.DataFrame()
EmptyFrame == [columns |-> <<>>, index |-> <<>>, rows |-> <<>>,
               origin |-> <<>>, synth |-> <<>>]

\* the origin of the column written by data["__row_id__"] = range(len(data))
TagOrigin == 0 - 1

----------------------------------------------------------------------------
(* DataFrame helpers                                                       *)

NRows(d) == Len(d.rows)

NCols(d) == Len(d.columns)

\* the positions of the columns whose label is one of names
ColumnsNamed(d, names) == {j \in 1..NCols(d) : d.columns[j] \in names}

\* the values of a record in the columns K
RowKey(row, K) == [j \in K |-> row[j]]

\* df.iloc[order]: the records at the given positions, in that order
TakeRows(d, order) ==
    [d EXCEPT !.index = [i \in 1..Len(order) |-> d.index[order[i]]],
              !.rows  = [i \in 1..Len(order) |-> d.rows[order[i]]]]

\* df.loc[:, keep]: the columns at the given positions, in that order
TakeColumns(d, keep) ==
    [d EXCEPT !.columns = [j \in 1..Len(keep) |-> d.columns[keep[j]]],
              !.origin  = [j \in 1..Len(keep) |-> d.origin[keep[j]]],
              !.synth   = [j \in 1..Len(keep) |-> d.synth[keep[j]]],
              !.rows    = [i \in 1..NRows(d) |->
                             [j \in 1..Len(keep) |-> d.rows[i][keep[j]]]]]

\* the positions 1..n that satisfy Test, in increasing order
Positions(n, Test(_)) == SelectSeq([i \in 1..n |-> i], Test)

\* df.drop_duplicates(subset, keep="first") on the columns K
KeepFirst(d, K) ==
    TakeRows(d, Positions(NRows(d),
        LAMBDA i : \A j \in 1..(i - 1) :
                      RowKey(d.rows[j], K) # RowKey(d.rows[i], K)))

\* df.notna().sum(axis=1) of one record
Completeness(row) == Cardinality({j \in 1..Len(row) : notna(row[j])})

\* df.sort_values(by, ascending=False) with the default kind="quicksort",
\* which is not a stable sort: every arrangement of the records in
\* non-increasing order of their key is a possible result
DescendingOrders(key) ==
    LET n == Len(key)
    IN  {p \in [1..n -> 1..n] :
            /\ \A i, j \in 1..n : p[i] = p[j] => i = j
            /\ \A i \in 1..(n - 1) : key[p[i]] >= key[p[i + 1]]}

----------------------------------------------------------------------------
(* excel_cleaner.py: clean_single_sheet_from_raw                           *)

T_column_ == <<"c","o","l","u","m","n","_">>

T_unnamed == <<"u","n","n","a","m","e","d">>

T_row_id == <<"_","_","r","o","w","_","i","d","_","_">>

\* f"column_{i}"
ColumnName(i) == T_column_ \o IntToStr(i)

\* header_row.fillna("").astype(str) of one header cell
HeaderText(v) == IF isna(v) THEN <<>> ELSE Str(v)

\* the label a header cell is given at 0-based position i
FixedLabel(label, i) ==
    LET c == Strip(label)
    IN  IF c # <<>> /\ ~StartsWith(Lower(c), T_unnamed) THEN c
        ELSE ColumnName(i)

\* whether FixedLabel falls back to column_<i>
IsFallback(label) ==
    LET c == Strip(label)
    IN  ~(c # <<>> /\ ~StartsWith(Lower(c), T_unnamed))

\* dropna(axis=1, how="all"): the columns with a value in some record
NonEmptyColumns(d) ==
    Positions(NCols(d), LAMBDA j : \E i \in 1..NRows(d) : notna(d.rows[i][j]))

\* dropna(how="all"): the records with a value in some column
NonEmptyRows(d) ==
    Positions(NRows(d), LAMBDA i : \E j \in 1..NCols(d) : notna(d.rows[i][j]))

\* the labels the code assigns to a body of the given width: the first
\* width cells of the header row, padded with column_<i>
HeaderLabels(header_row, width) ==
    [j \in 1..width |->
        IF j <= Len(header_row) THEN HeaderText(header_row[j])
        ELSE ColumnName(j - 1)]

clean_single_sheet_from_raw(raw, hidx) ==
    LET header_row == raw[hidx + 1]
        n    == Len(raw) - (hidx + 1)
        ncol == Len(header_row)
        \* data = df_raw.iloc[header_idx + 1:].copy()
        data == [columns |-> [j \in 1..ncol |-> IntToStr(j - 1)],
                 index   |-> [i \in 1..n |-> hidx + i],
                 rows    |-> [i \in 1..n |-> raw[hidx + 1 + i]],
                 origin  |-> [j \in 1..ncol |-> j - 1],
                 synth   |-> [j \in 1..ncol |-> FALSE]]
        \* data = data.dropna(axis=1, how="all")
        kept == TakeColumns(data, NonEmptyColumns(data))
        \* data["__row_id__"] = range(len(data))
        tagged == [kept EXCEPT
                     !.columns = Append(@, T_row_id),
                     !.origin  = Append(@, TagOrigin),
                     !.synth   = Append(@, FALSE),
                     !.rows    = [i \in 1..n |-> Append(kept.rows[i], Num(i - 1))]]
        \* data.columns = header; then the fixed_cols loop
        header == HeaderLabels(header_row, NCols(tagged))
        named == [tagged EXCEPT
                     !.columns = [j \in 1..NCols(tagged) |->
                                     FixedLabel(header[j], j - 1)],
                     !.synth   = [j \in 1..NCols(tagged) |->
                                     j > Len(header_row) \/ IsFallback(header[j])]]
        \* data = data.dropna(how="all")
        rows_kept == TakeRows(named, NonEmptyRows(named))
    IN  IF n = 0 THEN EmptyFrame
        \* data = data.dropna(axis=1, how="all")
        ELSE TakeColumns(rows_kept, NonEmptyColumns(rows_kept))

----------------------------------------------------------------------------
(* excel_cleaner.py: remove_summary_rows                                   *)

\* is_summary(row) for the lower-cased keywords keys
is_summary(row, keys) ==
    \E j \in 1..Len(row) :
        /\ notna(row[j])
        /\ \E k \in 1..Len(keys) : Contains(Lower(Str(row[j])), keys[k])

\* the records df.loc[~df.apply(is_summary, axis=1)] keeps
SummaryKept(d, keys) ==
    Positions(NRows(d), LAMBDA i : ~is_summary(d.rows[i], keys))

remove_summary_rows(d, keywords) ==
    TakeRows(d, SummaryKept(d, [k \in 1..Len(keywords) |-> Lower(keywords[k])]))

----------------------------------------------------------------------------
(* excel_cleaner.py: drop_unnamed_numeric_columns                          *)

\* threshold = 0.8, as the fraction ThresholdNum / ThresholdDen
ThresholdNum == 8

ThresholdDen == 10

\* whether pd.to_numeric(v, errors="coerce") is a number: an integer, or a
\* text of digits with at most one decimal point
ParsesAsNumber(v) ==
    \/ v.t = "num"
    \/ /\ v.t = "str"
       /\ LET s == Strip(v.s)
          IN  /\ \E i \in 1..Len(s) : IsDigit(s[i])
              /\ \A i \in 1..Len(s) : IsDigit(s[i]) \/ s[i] = "."
              /\ Cardinality({i \in 1..Len(s) : s[i] = "."}) <= 1

\* the test that selects the columns the eliminator looks at
IsUnnamed(label) == StartsWith(label, T_column_)

\* the positions of the columns labelled like column j
SameLabel(d, j) == {k \in 1..NCols(d) : d.columns[k] = d.columns[j]}

\* df[col] is a DataFrame when the label col is not unique; then
\* pd.to_numeric(non_null) raises unless no record has a value in all of
\* the columns labelled col
JunkCheckRaises(d) ==
    \E j \in 1..NCols(d) :
        /\ IsUnnamed(d.columns[j])
        /\ Cardinality(SameLabel(d, j)) > 1
        /\ \E i \in 1..NRows(d) : \A k \in SameLabel(d, j) : notna(d.rows[i][k])

\* whether column j goes into cols_to_drop
IsJunk(d, j) ==
    /\ IsUnnamed(d.columns[j])
    /\ LET non_null == {i \in 1..NRows(d) : notna(d.rows[i][j])}
           numeric  == {i \in non_null : ParsesAsNumber(d.rows[i][j])}
       IN  \/ non_null = {}
           \/ ThresholdDen * Cardinality(numeric)
                 >= ThresholdNum * Cardinality(non_null)

drop_unnamed_numeric_columns(d) ==
    TakeColumns(d, Positions(NCols(d), LAMBDA j : ~IsJunk(d, j)))

----------------------------------------------------------------------------
(* excel_cleaner.py: the rest of smart_clean_sheets_from_bytes             *)

\* df.dropna(): the records with a value in every column
dropna(d) ==
    TakeRows(d, Positions(NRows(d),
        LAMBDA i : \A j \in 1..NCols(d) : notna(d.rows[i][j])))

\* the characters of the model in the order of their code points
CharSeq == <<" ", "%", ",", "-", ".">> \o DigitSeq \o <<":">> \o UpperSeq
           \o <<"_">> \o LowerSeq

Ord(c) == CHOOSE i \in 1..Len(CharSeq) : CharSeq[i] = c

RECURSIVE TextLess(_, _)
\* a < b of two Python strings
TextLess(a, b) ==
    IF b = <<>> THEN FALSE
    ELSE IF a = <<>> THEN TRUE
    ELSE IF Head(a) = Head(b) THEN TextLess(Tail(a), Tail(b))
    ELSE Ord(Head(a)) < Ord(Head(b))

\* a < b of two values of one type
CellLess(a, b) ==
    IF a.t = "str" THEN TextLess(a.s, b.s) ELSE a.n < b.n

\* the column df.sort_values("__row_id__") sorts by
RowIdColumn(d) == CHOOSE j \in ColumnsNamed(d, {T_row_id}) : TRUE

\* df.sort_values("__row_id__") raises when the label is not unique, and
\* when the column mixes values of types Python cannot compare
RestoreRaises(d) ==
    \/ Cardinality(ColumnsNamed(d, {T_row_id})) > 1
    \/ Cardinality({d.rows[i][RowIdColumn(d)].t : i \in 1..NRows(d)}
                   \ {"na"}) > 1

\* the orders df.sort_values("__row_id__") can produce (kind="quicksort"):
\* the values in non-decreasing order, equal values in any order, then the
\* records without a value in the order they had
RowIdOrders(d) ==
    LET c == RowIdColumn(d)
        n == NRows(d)
    IN  {p \in [1..n -> 1..n] :
            /\ \A i, j \in 1..n : p[i] = p[j] => i = j
            /\ \A i, j \in 1..n : i < j =>
                  LET a == d.rows[p[i]][c]
                      b == d.rows[p[j]][c]
                  IN  /\ isna(a) => isna(b) /\ p[i] < p[j]
                      /\ notna(a) /\ notna(b) => ~CellLess(b, a)}

\* df.sort_values("__row_id__").drop(columns="__row_id__")
restore_row_order(d, order) ==
    LET sorted == TakeRows(d, order)
    IN  TakeColumns(sorted,
            Positions(NCols(d), LAMBDA j : d.columns[j] # T_row_id))

\* df.reset_index(drop=True)
reset_index(d) == [d EXCEPT !.index = [i \in 1..NRows(d) |-> i - 1]]

----------------------------------------------------------------------------
(* excel_cleaner.py: smart_deduplicate                                     *)

\* the orders df.sort_values("_score", ascending=False) can produce
ScoreOrders(d) == DescendingOrders([i \in 1..NRows(d) |-> Completeness(d.rows[i])])

\* smart_deduplicate(df, key) when sort_values arranges the records as order
smart_deduplicate(d, key, order) ==
    LET present == SelectSeq(key, LAMBDA c : c \in Range(d.columns))
    IN  IF present = <<>>
        THEN KeepFirst(d, 1..NCols(d))
        ELSE KeepFirst(TakeRows(d, order), ColumnsNamed(d, Range(present)))

----------------------------------------------------------------------------
(* ai_insights.py: generate_ai_insights                                    *)

T_department == <<"d","e","p","a","r","t","m","e","n","t">>

T_hiredate == <<"h","i","r","e","d","a","t","e">>

\* df.empty
IsEmptyFrame(d) == NRows(d) = 0 \/ NCols(d) = 0

\* a text of the form dddd-dd-dd
IsDateText(s) ==
    /\ Len(s) = 10
    /\ \A i \in {1, 2, 3, 4, 6, 7, 9, 10} : IsDigit(s[i])
    /\ s[5] = "-" /\ s[8] = "-"

\* the number a text of digits denotes
RECURSIVE StrToInt(_)
StrToInt(s) ==
    IF s = <<>> THEN 0
    ELSE 10 * StrToInt(SubSeq(s, 1, Len(s) - 1))
         + ((CHOOSE k \in 1..10 : DigitSeq[k] = s[Len(s)]) - 1)

\* pd.to_datetime(v, errors="coerce") of one cell: a number counts
\* nanoseconds from 1970, a text that is no date becomes NaT
to_datetime(v) ==
    CASE v.t = "na"  -> NaN
      [] v.t = "dt"  -> v
      [] v.t = "num" -> Timestamp(1970)
      [] v.t = "str" -> IF IsDateText(Strip(v.s))
                        THEN Timestamp(StrToInt(SubSeq(Strip(v.s), 1, 4)))
                        ELSE NaN

\* the statements before the hiredate block that raise: idxmax() of the
\* value counts of a department column without values, and mean() of a
\* salary column that holds text or no value at all
InsightsRaises(d) ==
    \/ \E j \in 1..NCols(d) :
          /\ d.columns[j] = T_department
          /\ Cardinality(SameLabel(d, j)) = 1
          /\ \A i \in 1..NRows(d) : isna(d.rows[i][j])
    \/ \E j \in 1..NCols(d) :
          /\ d.columns[j] = T_salary
          /\ \/ \E i \in 1..NRows(d) : d.rows[i][j].t \in {"str", "dt"}
             \/ \A i \in 1..NRows(d) : isna(d.rows[i][j])

\* the table generate_ai_insights(df) leaves behind in df:
\* df["hiredate"] = pd.to_datetime(df["hiredate"], errors="coerce"), whose
\* exception for a label that is not unique is swallowed
generate_ai_insights(d) ==
    IF IsEmptyFrame(d) \/ InsightsRaises(d) THEN d
    ELSE IF Cardinality(ColumnsNamed(d, {T_hiredate})) # 1 THEN d
    ELSE LET h == CHOOSE j \in ColumnsNamed(d, {T_hiredate}) : TRUE
         IN  [d EXCEPT !.rows =
                 [i \in 1..NRows(d) |->
                     [j \in 1..NCols(d) |->
                         IF j = h THEN to_datetime(d.rows[i][j])
                         ELSE d.rows[i][j]]]]

----------------------------------------------------------------------------
(* Specification Spec: smart_clean_sheets_from_bytes on one sheet, then    *)
(* the app's reporting step                                                *)

\* the most records below the header row of a raw sheet
MaxBodyRows == 2

T_EmployeeID == <<"E","m","p","l","o","y","e","e","I","D">>

T_Column_1 == <<"C","o","l","u","m","n"," ","1">>

\* the header rows of the raw sheets
SheetHeaders == { <<Txt(T_employeeid), Txt(T_name)>>,
                  <<Txt(T_EmployeeID), Txt(T_hiredate)>>,
                  <<Txt(T_name), Txt(T_Column_1)>>,
                  <<Txt(T_employeeid), NaN>>,
                  <<Txt(T_employeeid), Txt(T_row_id)>> }

\* the cells of the first and of the second column of the raw sheets
FirstCells == {NaN, Txt(T_E1), Txt(T_bob)}

SecondCells == {NaN, Num(7), Txt(T_total)}

\* the default of the app's "Summary keywords" input, split at the commas
summary_keywords == << T_total,
                       <<"s","u","b","t","o","t","a","l">>,
                       <<"g","r","a","n","d"," ","t","o","t","a","l">>,
                       <<"a","v","g">>,
                       <<"a","v","e","r","a","g","e">>,
                       <<"s","u","m">> >>

\* the key smart_clean_sheets_from_bytes passes to smart_deduplicate
DefaultDedupKey == <<T_employeeid>>

\* the key columns a caller supplies for the sheet in dup_subset_map;
\* <<>> stands for None
SuppliedKeys == {<<>>, <<T_name>>}

Init ==
    /\ \/ df_raw = <<>>
       \/ \E n \in 0..MaxBodyRows, h \in SheetHeaders :
             \E body \in [1..n -> FirstCells \X SecondCells] :
                df_raw = <<h>> \o body
    /\ apply_standardize \in BOOLEAN
    /\ remove_summary \in BOOLEAN
    /\ remove_dupes \in BOOLEAN
    /\ dup_subset_map \in SuppliedKeys
    /\ remove_dupes = FALSE => dup_subset_map = <<>>
    /\ drop_missing \in BOOLEAN
    /\ header_idx = 0
    /\ df = EmptyFrame
    /\ prev = EmptyFrame
    /\ cleaned = EmptyFrame
    /\ subset = <<>>
    /\ pc = "start"

\* if df_raw.empty: cleaned[sheet] = pd.DataFrame(); continue
EmptySheet ==
    /\ pc = "start"
    /\ df_raw = <<>>
    /\ cleaned' = EmptyFrame
    /\ pc' = "done"
    /\ UNCHANGED <<df_raw, header_idx, df, prev, subset, apply_standardize,
                   remove_summary, remove_dupes, dup_subset_map,
                   drop_missing>>

\* header_idx = detect_header_row(df_raw)
DetectHeader ==
    /\ pc = "start"
    /\ df_raw # <<>>
    /\ header_idx' = detect_header_row(df_raw)
    /\ pc' = "detected"
    /\ UNCHANGED <<df_raw, df, prev, cleaned, subset, apply_standardize,
                   remove_summary, remove_dupes, dup_subset_map,
                   drop_missing>>

\* df = clean_single_sheet_from_raw(df_raw, header_idx)
Normalize ==
    /\ pc = "detected"
    /\ df' = clean_single_sheet_from_raw(df_raw, header_idx)
    /\ prev' = df
    /\ pc' = "normalized"
    /\ UNCHANGED <<df_raw, header_idx, cleaned, subset, apply_standardize,
                   remove_summary, remove_dupes, dup_subset_map,
                   drop_missing>>

\* if apply_standardize: df = standardize_column_names(df)
Standardize ==
    /\ pc = "normalized"
    /\ df' = IF apply_standardize THEN standardize_column_names(df) ELSE df
    /\ prev' = df
    /\ pc' = "standardized"
    /\ UNCHANGED <<df_raw, header_idx, cleaned, subset, apply_standardize,
                   remove_summary, remove_dupes, dup_subset_map,
                   drop_missing>>

\* if remove_summary: df = remove_summary_rows(df, summary_keywords).
\* On a table without records df.apply returns an empty float Series, and
\* whether ~ of it raises depends on the pandas build: both outcomes
FilterSummaries ==
    /\ pc = "standardized"
    /\ prev' = df
    /\ \/ /\ remove_summary /\ NRows(df) = 0
          /\ df' = df
          /\ pc' = "failed"
       \/ /\ df' = IF remove_summary
                   THEN remove_summary_rows(df, summary_keywords) ELSE df
          /\ pc' = "filtered"
    /\ UNCHANGED <<df_raw, header_idx, cleaned, subset, apply_standardize,
                   remove_summary, remove_dupes, dup_subset_map,
                   drop_missing>>

\* if remove_dupes: df = smart_deduplicate(df, ["employeeid"])
Deduplicate ==
    /\ pc = "filtered"
    /\ prev' = df
    /\ IF remove_dupes
       THEN \E order \in ScoreOrders(df) :
               df' = smart_deduplicate(df, DefaultDedupKey, order)
       ELSE df' = df
    /\ pc' = "deduped"
    /\ UNCHANGED <<df_raw, header_idx, cleaned, subset, apply_standardize,
                   remove_summary, remove_dupes, dup_subset_map,
                   drop_missing>>

\* df = drop_unnamed_numeric_columns(df)
DropJunkColumns ==
    /\ pc = "deduped"
    /\ prev' = df
    /\ IF JunkCheckRaises(df)
       THEN df' = df /\ pc' = "failed"
       ELSE df' = drop_unnamed_numeric_columns(df) /\ pc' = "junked"
    /\ UNCHANGED <<df_raw, header_idx, cleaned, subset, apply_standardize,
                   remove_summary, remove_dupes, dup_subset_map,
                   drop_missing>>

\* if drop_missing: df = df.dropna()
DropIncomplete ==
    /\ pc = "junked"
    /\ prev' = df
    /\ df' = IF drop_missing THEN dropna(df) ELSE df
    /\ pc' = "complete"
    /\ UNCHANGED <<df_raw, header_idx, cleaned, subset, apply_standardize,
                   remove_summary, remove_dupes, dup_subset_map,
                   drop_missing>>

\* if "__row_id__" in df.columns:
\*     df = df.sort_values("__row_id__").drop(columns="__row_id__")
RestoreOrder ==
    /\ pc = "complete"
    /\ prev' = df
    /\ IF ColumnsNamed(df, {T_row_id}) = {}
       THEN df' = df /\ pc' = "restored"
       ELSE IF RestoreRaises(df)
       THEN df' = df /\ pc' = "failed"
       ELSE /\ \E order \in RowIdOrders(df) :
                  df' = restore_row_order(df, order)
            /\ pc' = "restored"
    /\ UNCHANGED <<df_raw, header_idx, cleaned, subset, apply_standardize,
                   remove_summary, remove_dupes, dup_subset_map,
                   drop_missing>>

\* cleaned[sheet] = df.reset_index(drop=True)
StoreCleaned ==
    /\ pc = "restored"
    /\ cleaned' = reset_index(df)
    /\ pc' = "done"
    /\ UNCHANGED <<df_raw, header_idx, df, prev, subset, apply_standardize,
                   remove_summary, remove_dupes, dup_subset_map,
                   drop_missing>>

\* app.py: for sheet, df in cleaned.items():
\*             if not df.empty: ... generate_ai_insights(df)
ReportInsights ==
    /\ pc = "done"
    /\ cleaned' = generate_ai_insights(cleaned)
    /\ pc' = "reported"
    /\ UNCHANGED <<df_raw, header_idx, df, prev, subset, apply_standardize,
                   remove_summary, remove_dupes, dup_subset_map,
                   drop_missing>>

Next ==
    \/ EmptySheet
    \/ DetectHeader
    \/ Normalize
    \/ Standardize
    \/ FilterSummaries
    \/ Deduplicate
    \/ DropJunkColumns
    \/ DropIncomplete
    \/ RestoreOrder
    \/ StoreCleaned
    \/ ReportInsights

Spec == Init /\ [][Next]_vars

\* the raw row a record of the pipeline's table was read from: pandas'
\* row label p is the 0-based position in df_raw
RawRow(p) == df_raw[p + 1]

\* the labels of the records below the header row
BodyLabels == {p \in 0..(Len(df_raw) - 1) : p > header_idx}

StrictlyIncreasing(seq) ==
    \A i, j \in 1..Len(seq) : i < j => seq[i] < seq[j]

\* C1: the table smart_clean_sheets_from_bytes returns has no column that
\* carries the row-order tag, whatever the column is called by then
C1_TagNeverExposed ==
    pc = "done" => \A j \in 1..NCols(cleaned) : cleaned.origin[j] # TagOrigin

\* C2: with dedupe enabled, the records of the returned table are in
\* document order (the order of their row-order tags)
C2_DocumentOrderRestored ==
    (pc = "done" /\ remove_dupes) => StrictlyIncreasing(df.index)

\* C3: with dedupe and drop_incomplete disabled, the returned records are
\* the records of the body that the summary filter does not remove, in the
\* order of the body, each with the values it had there
C3_OrderPreserved ==
    (pc = "done" /\ df_raw # <<>> /\ ~remove_dupes /\ ~drop_missing) =>
        /\ StrictlyIncreasing(df.index)
        /\ Range(df.index) =
              {p \in BodyLabels :
                  ~(remove_summary /\
                    is_summary(RawRow(p),
                        [k \in 1..Len(summary_keywords) |->
                            Lower(summary_keywords[k])]))}
        /\ \A i \in 1..NRows(cleaned), j \in 1..NCols(cleaned) :
              cleaned.rows[i][j] =
                 IF cleaned.origin[j] = TagOrigin
                 THEN Num(df.index[i] - header_idx - 1)
                 ELSE RawRow(df.index[i])[cleaned.origin[j] + 1]

\* the columns of before that are missing from after
Dropped(before, after) ==
    {j \in 1..NCols(before) : before.origin[j] \notin Range(after.origin)}

\* C8: drop_unnamed_numeric_columns drops a column of sheet data if and
\* only if its label was synthesized by the Normalizer and its values are
\* all missing or at least 80% numeric; a column with a label of the header
\* row is kept
C8_OnlySynthesizedDropped ==
    pc = "junked" =>
        \A j \in 1..NCols(prev) :
            prev.origin[j] # TagOrigin =>
               (j \in Dropped(prev, df) <=>
                  /\ prev.synth[j]
                  /\ LET non_null == {i \in 1..NRows(prev) :
                                         notna(prev.rows[i][j])}
                         numeric  == {i \in non_null :
                                         ParsesAsNumber(prev.rows[i][j])}
                     IN  \/ non_null = {}
                         \/ ThresholdDen * Cardinality(numeric)
                               >= ThresholdNum * Cardinality(non_null))

\* C9: with dedupe enabled and a key supplied for the sheet that names a
\* column of the table, the sheet is deduplicated on the supplied key: no
\* two records that remain agree on the supplied key columns
C9_SuppliedKeyUsed ==
    (pc = "deduped" /\ remove_dupes
        /\ ColumnsNamed(prev, Range(dup_subset_map)) # {}) =>
        LET K == ColumnsNamed(prev, Range(dup_subset_map))
        IN  \A i, j \in 1..NRows(df) :
               RowKey(df.rows[i], K) = RowKey(df.rows[j], K) => i = j

\* C10: generate_ai_insights leaves every column and every cell of the
\* cleaned table as the pipeline produced it
C10_InsightsReadOnly ==
    pc = "reported" /\ df_raw # <<>> => cleaned = reset_index(df)

\* the columns of sheet data with a synthesized label that
\* drop_unnamed_numeric_columns would drop from d
NoiseColumns(d) ==
    {j \in 1..NCols(d) :
        d.origin[j] # TagOrigin /\ d.synth[j] /\ IsJunk(d, j)}

\* C11: the junk-column stage runs after standardization and before
\* deduplication: the table whose records smart_deduplicate scores has no
\* column of sheet data left that the junk-column stage drops
C11_JunkDroppedBeforeDedup ==
    (pc = "deduped" /\ remove_dupes) => NoiseColumns(prev) = {}

\* C12: in the table clean_single_sheet_from_raw returns, each column of
\* sheet data is labelled with the header cell of its own position in the
\* raw sheet, or with a column_<n> name when that cell is blank or an
\* unnamed placeholder, and the row-order tag has no label of the header row
C12_LabelsAligned ==
    pc = "normalized" =>
        \A j \in 1..NCols(df) :
            IF df.origin[j] = TagOrigin
            THEN df.columns[j] = T_row_id \/ df.synth[j]
            ELSE LET own == HeaderText(df_raw[header_idx + 1][df.origin[j] + 1])
                 IN  IF IsFallback(own) THEN IsUnnamed(df.columns[j])
                     ELSE df.columns[j] = Strip(own)

----------------------------------------------------------------------------
(* Specification SpecHeader: detect_header_row applied to a raw grid       *)

\* the longest grid given to the header detector
MaxGridRows == 22

\* the rows the grids of SpecHeader are made of
ProbeRows == { <<NaN, NaN>>,
               <<Txt(T_name), Txt(T_salary)>>,
               <<Txt(T_name), NaN>>,
               <<Num(1), Num(2)>>,
               <<Txt(T_emp001), Txt(T_bob)>> }

\* the fill rows of the grids of SpecHeader
FillRows == { <<NaN, NaN>>, <<Num(1), Num(2)>> }

\* a grid of n rows: rows p and q are a and b, every other row is f
ProbeGrid(n, f, p, a, q, b) ==
    [i \in 1..n |-> IF i = p THEN a ELSE IF i = q THEN b ELSE f]

Idle ==
    /\ df = EmptyFrame
    /\ prev = EmptyFrame
    /\ cleaned = EmptyFrame
    /\ subset = <<>>
    /\ apply_standardize = FALSE
    /\ remove_summary = FALSE
    /\ remove_dupes = FALSE
    /\ dup_subset_map = <<>>
    /\ drop_missing = FALSE

InitHeader ==
    /\ \E n \in 0..MaxGridRows, f \in FillRows :
          \/ n = 0 /\ df_raw = <<>>
          \/ \E p \in 1..n, a \in ProbeRows :
                \E q \in p..n, b \in ProbeRows :
                   df_raw = ProbeGrid(n, f, p, a, q, b)
    /\ header_idx = 0
    /\ pc = "grid"
    /\ Idle

\* header_idx = detect_header_row(df_raw)
DetectOnly ==
    /\ pc = "grid"
    /\ header_idx' = detect_header_row(df_raw)
    /\ pc' = "detected"
    /\ UNCHANGED <<df_raw, df, prev, cleaned, subset, apply_standardize,
                   remove_summary, remove_dupes, dup_subset_map,
                   drop_missing>>

NextHeader == DetectOnly

SpecHeader == InitHeader /\ [][NextHeader]_vars

\* the rows the detector examines: 0 .. min(len(grid), 20) - 1
Examined(grid) ==
    {i \in 0..(Len(grid) - 1) : i < MaxRowsToCheck}

\* the examined rows that are not entirely empty
Evaluable(grid) ==
    {i \in Examined(grid) : \E j \in 1..Len(grid[i + 1]) : notna(grid[i + 1][j])}

\* C4: detect_header_row returns the first row that attains the maximum
\* score among the evaluable rows of the window, 0 when there is none, and
\* so an index below min(len(grid), 20) for a non-empty grid
C4_FirstMaximalRow ==
    pc = "detected" =>
        LET rows  == Evaluable(df_raw)
            score == [j \in rows |-> RowScore(df_raw[j + 1], j)]
        IN  /\ rows = {} => header_idx = 0
            /\ rows # {} =>
                  /\ header_idx \in rows
                  /\ \A j \in rows :
                        /\ score[j] <= score[header_idx]
                        /\ j < header_idx => score[j] < score[header_idx]
            /\ Len(df_raw) > 0 => header_idx \in Examined(df_raw)

\* C4 witness: a grid longer than the window whose best-scoring row lies
\* beyond the window, and in which two examined rows tie for the maximum
C4_Witness ==
    /\ pc = "detected"
    /\ Len(df_raw) > MaxRowsToCheck
    /\ \E j \in MaxRowsToCheck..(Len(df_raw) - 1) :
          RowScore(df_raw[j + 1], j)
             > RowScore(df_raw[header_idx + 1], header_idx)
    /\ \E j \in Evaluable(df_raw) :
          /\ j > header_idx
          /\ RowScore(df_raw[j + 1], j)
                = RowScore(df_raw[header_idx + 1], header_idx)

----------------------------------------------------------------------------
(* Specification SpecStd: standardize_column_names applied twice           *)

\* the longest sequence of column names given to the Standardizer
MaxNames == 3

T_A == <<"A">>

T_a == <<"a">>

T_a_1 == <<"a","_","1">>

T_A1 == <<"A"," ","1">>

T_pct == <<"%">>

T_column_1 == <<"c","o","l","u","m","n","_","1">>

T_Emp_ID == <<" ","E","m","p"," "," ","I","D",".">>

\* the column names SpecStd draws from
NameVocab == {T_A, T_a, T_a_1, T_A1, <<>>, T_pct, T_column_1, T_Emp_ID}

\* a table of no records with the given column names
HeaderOnlyFrame(names) ==
    [columns |-> names, index |-> <<>>, rows |-> <<>>,
     origin |-> [j \in 1..Len(names) |-> j - 1],
     synth  |-> [j \in 1..Len(names) |-> FALSE]]

InitStd ==
    /\ \E n \in 1..MaxNames : \E names \in [1..n -> NameVocab] :
          df = HeaderOnlyFrame(names)
    /\ prev = EmptyFrame
    /\ pc = "names"
    /\ df_raw = <<>>
    /\ header_idx = 0
    /\ cleaned = EmptyFrame
    /\ subset = <<>>
    /\ apply_standardize = TRUE
    /\ remove_summary = FALSE
    /\ remove_dupes = FALSE
    /\ dup_subset_map = <<>>
    /\ drop_missing = FALSE

\* df = standardize_column_names(df)
StandardizeOnce ==
    /\ pc = "names"
    /\ prev' = df
    /\ df' = standardize_column_names(df)
    /\ pc' = "std1"
    /\ UNCHANGED <<df_raw, header_idx, cleaned, subset, apply_standardize,
                   remove_summary, remove_dupes, dup_subset_map,
                   drop_missing>>

\* df = standardize_column_names(df), on the output of the first call
StandardizeAgain ==
    /\ pc = "std1"
    /\ prev' = df
    /\ df' = standardize_column_names(df)
    /\ pc' = "std2"
    /\ UNCHANGED <<df_raw, header_idx, cleaned, subset, apply_standardize,
                   remove_summary, remove_dupes, dup_subset_map,
                   drop_missing>>

NextStd == StandardizeOnce \/ StandardizeAgain

SpecStd == InitStd /\ [][NextStd]_vars

\* the names of a sequence are pairwise distinct
Distinct(names) ==
    \A i, j \in 1..Len(names) : names[i] = names[j] => i = j

\* C5: the names produced by standardize_column_names are pairwise
\* distinct, for every sequence of input names
C5_NoCollision ==
    pc = "std1" => Distinct(df.columns)

\* C6: standardizing the output of standardize_column_names returns it
\* unchanged
C6_Idempotent ==
    pc = "std2" => df.columns = prev.columns

----------------------------------------------------------------------------
(* Specification SpecDedup: smart_deduplicate applied to a table           *)

\* the most records of a table given to the Deduplicator
MaxDedupRows == 3

\* the cells of the tables of SpecDedup
DedupCells == {NaN, Txt(T_E1), Txt(T_bob)}

\* the key sets given to the Deduplicator
DedupKeys == { <<T_employeeid>>, <<T_name>>, <<T_employeeid, T_name>>,
               <<T_dept, T_employeeid>>, <<T_dept>> }

InitDedup ==
    /\ \E n \in 1..MaxDedupRows :
          \E body \in [1..n -> [1..2 -> DedupCells]] :
             df = [columns |-> <<T_employeeid, T_name>>,
                   index   |-> [i \in 1..n |-> i - 1],
                   rows    |-> body,
                   origin  |-> <<0, 1>>,
                   synth   |-> <<FALSE, FALSE>>]
    /\ subset \in DedupKeys
    /\ prev = EmptyFrame
    /\ pc = "table"
    /\ df_raw = <<>>
    /\ header_idx = 0
    /\ cleaned = EmptyFrame
    /\ apply_standardize = FALSE
    /\ remove_summary = FALSE
    /\ remove_dupes = TRUE
    /\ dup_subset_map = <<>>
    /\ drop_missing = FALSE

\* df = smart_deduplicate(df, subset)
DeduplicateOnly ==
    /\ pc = "table"
    /\ prev' = df
    /\ \E order \in ScoreOrders(df) :
          df' = smart_deduplicate(df, subset, order)
    /\ pc' = "deduped"
    /\ UNCHANGED <<df_raw, header_idx, cleaned, subset, apply_standardize,
                   remove_summary, remove_dupes, dup_subset_map,
                   drop_missing>>

NextDedup == DeduplicateOnly

SpecDedup == InitDedup /\ [][NextDedup]_vars

\* the position in d of the record labelled p
RowAt(d, p) == CHOOSE i \in 1..NRows(d) : d.index[i] = p

\* C7: with a key naming an existing column, smart_deduplicate returns
\* exactly one record per distinct key combination, and that record is the
\* most complete member of its duplicate group, the earliest in document
\* order among the members of equal completeness
C7_MostCompleteEarliestWins ==
    (pc = "deduped" /\ ColumnsNamed(prev, Range(subset)) # {}) =>
        LET K == ColumnsNamed(prev, Range(subset))
        IN  /\ \A i \in 1..NRows(prev) :
                  Cardinality({o \in 1..NRows(df) :
                      RowKey(df.rows[o], K) = RowKey(prev.rows[i], K)}) = 1
            /\ \A o \in 1..NRows(df) :
                  /\ \E i \in 1..NRows(prev) : prev.index[i] = df.index[o]
                  /\ LET k == RowAt(prev, df.index[o])
                     IN  /\ prev.rows[k] = df.rows[o]
                         /\ \A m \in 1..NRows(prev) :
                               RowKey(prev.rows[m], K) = RowKey(prev.rows[k], K)
                               => /\ Completeness(prev.rows[m])
                                        <= Completeness(prev.rows[k])
                                  /\ Completeness(prev.rows[m])
                                        = Completeness(prev.rows[k])
                                     => prev.index[k] <= prev.index[m]

====
